---- MODULE Spec2Model ----
(***************************************************************************)
(* The product-hunt REST server of src/index.js as a state machine.        *)
(*                                                                         *)
(* The state is the document store (one sequence of documents per          *)
(* collection, in insertion order, which is the order findOne scans) and   *)
(* the bag of requests in flight.  Every store round trip of a handler (each      *)
(* `await collection.op(...)`) is one atomic step; the synchronous code    *)
(* that follows it, up to the next await or the response, belongs to the   *)
(* same step.  lastResp is the response sent by the latest step (NoResp    *)
(* when that step sent none).                                              *)
(***************************************************************************)
EXTENDS Integers, Sequences, FiniteSets, Bags, TLC

VARIABLES products, nextId, memberships, coupons, users, productReports,
          reportsLog, req, lastResp

vars == <<products, nextId, memberships, coupons, users, productReports,
          reportsLog, req, lastResp>>

-----------------------------------------------------------------------------
(* Bounds of the model *)

MaxProducts == 2
MaxVotes == 2
MaxInFlight == 2
MaxMemberships == 2
MaxCoupons == 2
MaxUsers == 2
MaxReports == 2

Emails == {"a@x", "b@x"}

(* Program constant: the vote count from which a product is "rising". *)
RisingThreshold == 10

-----------------------------------------------------------------------------
(* Object ids.  A stored _id is an ObjectId, modelled by its number.  A    *)
(* request carries a string: 24 lower-case hex digits ("hex"), 24 hex      *)
(* digits with upper-case letters ("HEX"), any 12-character string         *)
(* ("raw12"), or anything else ("bad").                                    *)

IdString(form, n) == [form |-> form, n |-> n]

ObjectIdIsValid(id) == id.form \in {"hex", "HEX", "raw12"}

NewObjectId(id) == id.n

ObjectIdToString(oid) == IdString("hex", oid)

isValidObjectIdNoRoundTrip(id) == ObjectIdIsValid(id)

isValidObjectId(id) ==
  ObjectIdIsValid(id) /\ ObjectIdToString(NewObjectId(id)) = id

-----------------------------------------------------------------------------
(* Store primitives over a collection held as a sequence of documents. *)

(* find(filter).toArray() is SelectSeq; findOne(filter) is the first       *)
(* matching document, as a sequence of length 0 or 1.                      *)
First(found) == IF found = <<>> THEN <<>> ELSE <<Head(found)>>

includesNothing(arr, x) == FALSE

includes(arr, x) == \E i \in 1..Len(arr) : arr[i] = x

FindProductById(oid) == First(SelectSeq(products, LAMBDA d : d._id = oid))

DeleteEveryIfFound(coll, oid) ==
  IF \E i \in 1..Len(coll) : coll[i]._id = oid THEN <<>> ELSE coll

(* deleteOne({_id}): removes the matching document (_id is unique). *)
DeleteOneById(coll, oid) == SelectSeq(coll, LAMBDA d : d._id # oid)

-----------------------------------------------------------------------------
(* Requests and responses.  req is the bag of requests that are between  *)
(* two store round trips; a request that is answered leaves the bag.      *)

NoId == IdString("bad", 0)

Request(op, pc, id, email, type, active) ==
  [op |-> op, pc |-> pc, id |-> id, email |-> email, type |-> type,
   active |-> active]

Start(r) == req' = req (+) SetToBag({r})
Move(r, r2) == req' = (req (-) SetToBag({r})) (+) SetToBag({r2})
Finish(r) == req' = req (-) SetToBag({r})
InFlight == BagToSet(req)
CanStart == BagCardinality(req) < MaxInFlight

(* A response names the request it answers: its route and, where the       *)
(* request has them, its id, its identity and a vote type it was refused   *)
(* for.                                                                    *)
NoResp == [op |-> "none", status |-> 0, message |-> "", id |-> NoId,
           email |-> "", type |-> "", votes |-> 0, docs |-> <<>>]

Resp(op, status, message, id, email) ==
  [op |-> op, status |-> status, message |-> message, id |-> id,
   email |-> email, type |-> "", votes |-> 0, docs |-> <<>>]

-----------------------------------------------------------------------------
(* Inputs of the requests *)

ProductIds == 1..MaxProducts

RequestIds ==
  {IdString("hex", n) : n \in ProductIds}
    \cup {IdString("HEX", 1), IdString("raw12", 1), IdString("bad", 0)}

VoteTypes == {"up", "down", "sideways"}

-----------------------------------------------------------------------------
(* The stores a run starts from.  SeedProduct is a product that nine       *)
(* earlier voters have each voted up once; the others are as POST          *)
(* /products inserts them.                                                 *)

SeedVotedBy == <<"v1", "v2", "v3", "v4", "v5", "v6", "v7", "v8", "v9">>

(* productData has no status field: the status of a product is absent     *)
(* until PATCH /products/approve/:id sets it.                              *)
Absent == "(absent)"

NoStatus == Absent

SeedProduct ==
  [_id |-> 1, ownerEmail |-> "a@x", votes |-> Len(SeedVotedBy),
   votedBy |-> SeedVotedBy, status |-> NoStatus]

NewProduct(oid, e) ==
  [_id |-> oid, ownerEmail |-> e, votes |-> 0, votedBy |-> <<>>,
   status |-> NoStatus]

InitialProducts ==
  {<<SeedProduct>>, <<NewProduct(1, "a@x")>>, <<SeedProduct, NewProduct(2, "b@x")>>}

InitialGateProducts == {<<>>, <<SeedProduct>>}

NoReports == [reportCount |-> 0, reportedBy |-> <<>>]

InitCommon ==
  /\ nextId = Len(products) + 1
  /\ coupons = <<>>
  /\ users = <<>>
  /\ productReports = [oid \in ProductIds |-> NoReports]
  /\ reportsLog = <<>>
  /\ req = EmptyBag
  /\ lastResp = NoResp

Init ==
  /\ products \in InitialProducts
  /\ memberships = <<>>
  /\ InitCommon

-----------------------------------------------------------------------------
(* POST /products: membership lookup, owned-products lookup and the gate,  *)
(* then the insert.                                                        *)

OwnedBy(e) == SelectSeq(products, LAMBDA d : d.ownerEmail = e)

FindMembership(e) == First(SelectSeq(memberships, LAMBDA m : m.userEmail = e))

PostProductsFindMembership(e) ==
  /\ CanStart
  /\ LET membership == FindMembership(e)
     IN  Start(Request("postProducts", "findProducts", NoId, e, "",
                       membership # <<>> /\ membership[1].isActive))
  /\ lastResp' = NoResp
  /\ UNCHANGED <<products, nextId, memberships, coupons, users,
                 productReports, reportsLog>>

GateRejects(active, userProducts) == (~active) /\ Len(userProducts) >= 1

PostProductsFindProducts(r) ==
  /\ r.op = "postProducts" /\ r.pc = "findProducts"
  /\ LET userProducts == OwnedBy(r.email)
     IN  IF GateRejects(r.active, userProducts)
         THEN /\ Finish(r)
              /\ lastResp' = Resp("postProducts", 403, "Only 1 product allowed",
                                  NoId, r.email)
         ELSE /\ Move(r, [r EXCEPT !.pc = "insert"])
              /\ lastResp' = NoResp
  /\ UNCHANGED <<products, nextId, memberships, coupons, users,
                 productReports, reportsLog>>

PostProductsInsertSpendingMembership(r) ==
  /\ r.op = "postProducts" /\ r.pc = "insert"
  /\ nextId <= MaxProducts
  /\ products' = Append(products, NewProduct(nextId, r.email))
  /\ nextId' = nextId + 1
  /\ memberships' = [i \in 1..Len(memberships) |->
                       IF memberships[i].userEmail = r.email
                       THEN [memberships[i] EXCEPT !.isActive = FALSE]
                       ELSE memberships[i]]
  /\ req' = req (-) SetToBag({r})
  /\ lastResp' = [op |-> "postProducts", status |-> 201,
                  message |-> "Product added successfully",
                  id |-> IdString("bad", 0), email |-> r.email, type |-> "",
                  votes |-> 0, docs |-> <<>>]
  /\ UNCHANGED <<coupons, users, productReports, reportsLog>>

PostProductsInsert(r) ==
  /\ r.op = "postProducts" /\ r.pc = "insert"
  /\ nextId <= MaxProducts
  /\ products' = Append(products, NewProduct(nextId, r.email))
  /\ nextId' = nextId + 1
  /\ Finish(r)
  /\ lastResp' = Resp("postProducts", 201, "Product added successfully",
                      NoId, r.email)
  /\ UNCHANGED <<memberships, coupons, users, productReports, reportsLog>>

-----------------------------------------------------------------------------
(* PATCH /products/:id/vote: lookup and checks, update, re-read. *)

VotesCast ==
  Cardinality({<<i, j>> \in (1..Len(products)) \X (1..(Len(SeedVotedBy) + MaxVotes)) :
                 j <= Len(products[i].votedBy)
                 /\ products[i].votedBy[j] \in Emails})

VotesPending ==
  BagCardinality(req) - BagCardinality(req (-) SetToBag({r \in InFlight : r.pc = "update"}))

VoteDelta(type) == IF type = "up" THEN 1 ELSE -1

UpdateOneVoteCountOnly(coll, oid, type, userEmail) ==
  [i \in 1..Len(coll) |->
     IF coll[i]._id = oid
     THEN [coll[i] EXCEPT !.votes = @ + (IF type = "up" THEN 1 ELSE -1)]
     ELSE coll[i]]

(* updateOne({_id}, {$inc: {votes}, $push: {votedBy}}): changes the       *)
(* matching document, if there is one.                                     *)
UpdateOneVote(coll, oid, type, userEmail) ==
  [i \in 1..Len(coll) |->
     IF coll[i]._id = oid
     THEN [coll[i] EXCEPT !.votes = @ + VoteDelta(type),
                          !.votedBy = Append(@, userEmail)]
     ELSE coll[i]]

VoteLookup(id, type, userEmail) ==
  /\ UNCHANGED <<products, nextId, memberships, coupons, users,
                 productReports, reportsLog>>
  /\ IF ~isValidObjectId(id)
     THEN /\ req' = req
          /\ lastResp' = Resp("vote", 400, "Invalid product ID format", id, "")
     ELSE LET product == FindProductById(NewObjectId(id))
          IN  IF product = <<>>
              THEN /\ req' = req
                   /\ lastResp' = Resp("vote", 404, "Product not found", id, "")
              ELSE IF includes(product[1].votedBy, userEmail)
              THEN /\ req' = req
                   /\ lastResp' = Resp("vote", 400, "You have already voted on this product",
                                       id, userEmail)
              ELSE IF type \notin {"up", "down"}
              THEN /\ req' = req
                   /\ lastResp' = [Resp("vote", 400, "Invalid vote type", id, userEmail)
                                     EXCEPT !.type = type]
              ELSE /\ CanStart
                   /\ VotesCast + VotesPending < MaxVotes
                   /\ Start(Request("vote", "update", id, userEmail, type, FALSE))
                   /\ lastResp' = NoResp

VoteUpdate(r) ==
  /\ r.op = "vote" /\ r.pc = "update"
  /\ products' = UpdateOneVote(products, NewObjectId(r.id), r.type, r.email)
  /\ Move(r, [r EXCEPT !.pc = "reread"])
  /\ lastResp' = NoResp
  /\ UNCHANGED <<nextId, memberships, coupons, users, productReports, reportsLog>>

VoteReread(r) ==
  /\ r.op = "vote" /\ r.pc = "reread"
  /\ LET updatedProduct == FindProductById(NewObjectId(r.id))
     IN  lastResp' =
           IF updatedProduct = <<>>
           THEN Resp("vote", 500, "Failed to vote", r.id, r.email)
           ELSE [Resp("vote", 200, "Vote updated", r.id, r.email)
                   EXCEPT !.votes = updatedProduct[1].votes]
  /\ Finish(r)
  /\ UNCHANGED <<products, nextId, memberships, coupons, users,
                 productReports, reportsLog>>

-----------------------------------------------------------------------------
(* GET /products/rising and DELETE /products/:id *)

IsRisingStrictly(d) == d.votes > RisingThreshold

IsRising(d) == d.votes >= RisingThreshold

GetRising ==
  /\ lastResp' = [Resp("rising", 200, "", NoId, "")
                    EXCEPT !.docs = SelectSeq(products, IsRising)]
  /\ UNCHANGED <<products, nextId, memberships, coupons, users,
                 productReports, reportsLog, req>>

DeleteProduct(id) ==
  /\ UNCHANGED <<nextId, memberships, coupons, users, productReports,
                 reportsLog, req>>
  /\ IF ~isValidObjectId(id)
     THEN /\ products' = products
          /\ lastResp' = Resp("deleteProduct", 400, "Invalid product ID format", id, "")
     ELSE LET deleted == DeleteOneById(products, NewObjectId(id))
          IN  /\ products' = deleted
              /\ lastResp' =
                    IF Len(deleted) = Len(products)
                    THEN Resp("deleteProduct", 404, "Product not found to delete", id, "")
                    ELSE Resp("deleteProduct", 200, "Product deleted successfully", id, "")

-----------------------------------------------------------------------------
Next ==
  \/ \E id \in RequestIds, t \in VoteTypes, u \in Emails : VoteLookup(id, t, u)
  \/ \E r \in InFlight : VoteUpdate(r)
  \/ \E r \in InFlight : VoteReread(r)
  \/ GetRising
  \/ \E id \in RequestIds : DeleteProduct(id)

Spec == Init /\ [][Next]_vars

-----------------------------------------------------------------------------
(* POST /memberships inserts the request body as it is.  The gate is also  *)
(* run from a store that already holds an inactive record followed by an   *)
(* active one for the same email.                                          *)

Membership(e, isActive) == [userEmail |-> e, isActive |-> isActive]

InitialMemberships ==
  {<<>>, <<Membership("a@x", FALSE), Membership("a@x", TRUE)>>}

InitGate ==
  /\ products \in InitialGateProducts
  /\ memberships \in InitialMemberships
  /\ InitCommon

PostMemberships(e, isActive) ==
  /\ Len(memberships) < MaxMemberships
  /\ memberships' = Append(memberships, Membership(e, isActive))
  /\ lastResp' = Resp("postMemberships", 201, "Membership plan created successfully",
                      NoId, e)
  /\ UNCHANGED <<products, nextId, coupons, users, productReports, reportsLog, req>>

NextGate ==
  \/ \E e \in Emails, isActive \in BOOLEAN : PostMemberships(e, isActive)
  \/ \E e \in Emails : PostProductsFindMembership(e)
  \/ \E r \in InFlight : PostProductsFindProducts(r)
  \/ \E r \in InFlight : PostProductsInsert(r)

SpecGate == InitGate /\ [][NextGate]_vars

-----------------------------------------------------------------------------
(* Submissions and votes together, from the empty store: products are     *)
(* inserted by POST /products and voted on by PATCH /products/:id/vote     *)
(* with well-formed ids and the types up and down, in any interleaving.    *)
(* Nothing in the two handlers tells one submitter from another, so one    *)
(* submitter stands for all.                                               *)

Submitters == {"b@x"}

InitVotes ==
  /\ products = <<>>
  /\ memberships = <<>>
  /\ InitCommon

NextVotes ==
  \/ \E e \in Submitters : PostProductsFindMembership(e)
  \/ \E r \in InFlight : PostProductsFindProducts(r)
  \/ \E r \in InFlight : PostProductsInsert(r)
  \/ \E n \in ProductIds, t \in {"up", "down"}, u \in Emails :
       VoteLookup(IdString("hex", n), t, u)
  \/ \E r \in InFlight : VoteUpdate(r)
  \/ \E r \in InFlight : VoteReread(r)

SpecVotes == InitVotes /\ [][NextVotes]_vars

-----------------------------------------------------------------------------
(* GET /myproducts?email=e: find({ userEmail: email }).  A field filter    *)
(* matches the documents that have the field with that value.              *)

Field(d, name) == IF name \in DOMAIN d THEN d[name] ELSE Absent

GetMyProducts(email) ==
  /\ lastResp' = [Resp("myproducts", 200, "", NoId, email)
                    EXCEPT !.docs = SelectSeq(products,
                                              LAMBDA d : Field(d, "userEmail") = email)]
  /\ UNCHANGED <<products, nextId, memberships, coupons, users,
                 productReports, reportsLog, req>>

NextMyProducts ==
  \/ \E e \in Emails, isActive \in BOOLEAN : PostMemberships(e, isActive)
  \/ \E e \in Emails : PostProductsFindMembership(e)
  \/ \E r \in InFlight : PostProductsFindProducts(r)
  \/ \E r \in InFlight : PostProductsInsert(r)
  \/ \E e \in Emails : GetMyProducts(e)

SpecMyProducts == InitGate /\ [][NextMyProducts]_vars

-----------------------------------------------------------------------------
(* POST /coupons and GET /coupons/:code *)

Codes == {"", "SAVE10", "SAVE20"}
ExpiryDates == {"2025-12-31"}
Descriptions == {"10% off", "20% off"}
Discounts == {0, 10, 20}

Coupon(code, expiryDate, description, discount) ==
  [code |-> code, expiryDate |-> expiryDate, description |-> description,
   discount |-> discount]

(* JavaScript truthiness of a string field and of a number field. *)
TruthyString(v) == v # ""

TruthyNumber(v) == v # 0

InitCoupons ==
  /\ products = <<>>
  /\ memberships = <<>>
  /\ InitCommon

(* The 201 answer names the inserted document (insertedId): docs holds it. *)
PostCoupons(code, expiryDate, description, discount) ==
  /\ UNCHANGED <<products, nextId, memberships, users, productReports,
                 reportsLog, req>>
  /\ IF ~TruthyString(code) \/ ~TruthyString(expiryDate)
        \/ ~TruthyString(description) \/ ~TruthyNumber(discount)
     THEN /\ coupons' = coupons
          /\ lastResp' = Resp("postCoupons", 400, "All fields are required", NoId, "")
     ELSE /\ Len(coupons) < MaxCoupons
          /\ coupons' = Append(coupons, Coupon(code, expiryDate, description, discount))
          /\ lastResp' = [Resp("postCoupons", 201, "Coupon created successfully", NoId, "")
                            EXCEPT !.docs = <<Coupon(code, expiryDate, description,
                                                    discount)>>]

FindCouponByCode(code) == First(SelectSeq(coupons, LAMBDA c : c.code = code))

GetCoupon(code) ==
  /\ UNCHANGED <<products, nextId, memberships, coupons, users, productReports,
                 reportsLog, req>>
  /\ LET coupon == FindCouponByCode(code)
     IN  lastResp' =
           IF coupon = <<>>
           THEN Resp("getCoupon", 404, "Coupon not found", NoId, code)
           ELSE [Resp("getCoupon", 200, "", NoId, code) EXCEPT !.docs = coupon]

NextCoupons ==
  \/ \E code \in Codes, x \in ExpiryDates, d \in Descriptions, n \in Discounts :
       PostCoupons(code, x, d, n)
  \/ \E code \in Codes : GetCoupon(code)

SpecCoupons == InitCoupons /\ [][NextCoupons]_vars

-----------------------------------------------------------------------------
(* POST /signup and POST /register: lookup by email, then (after the       *)
(* password is hashed) the insert.  The two handlers have the same body.   *)

Passwords == {"pw"}

Hash(password) == <<"bcrypt", password>>

User(e, password) == [email |-> e, password |-> Hash(password)]

FindUserByEmail(e) == First(SelectSeq(users, LAMBDA u : u.email = e))

(* type carries the plain password of the request. *)
SignupFindUser(route, e, password) ==
  /\ UNCHANGED <<products, nextId, memberships, coupons, users, productReports,
                 reportsLog>>
  /\ LET existingUser == FindUserByEmail(e)
     IN  IF existingUser # <<>>
         THEN /\ req' = req
              /\ lastResp' = Resp(route, 400, "User already exists", NoId, e)
         ELSE /\ CanStart
              /\ Start(Request(route, "insert", NoId, e, password, FALSE))
              /\ lastResp' = NoResp

SignupInsert(r) ==
  /\ r.op \in {"signup", "register"} /\ r.pc = "insert"
  /\ Len(users) < MaxUsers
  /\ users' = Append(users, User(r.email, r.type))
  /\ Finish(r)
  /\ lastResp' = Resp(r.op, 201, "User registered successfully", NoId, r.email)
  /\ UNCHANGED <<products, nextId, memberships, coupons, productReports, reportsLog>>

NextUsers ==
  \/ \E e \in Emails, pw \in Passwords : SignupFindUser("signup", e, pw)
  \/ \E e \in Emails, pw \in Passwords : SignupFindUser("register", e, pw)
  \/ \E r \in InFlight : SignupInsert(r)

InitUsers ==
  /\ products = <<>>
  /\ memberships = <<>>
  /\ InitCommon

SpecUsers == InitUsers /\ [][NextUsers]_vars

-----------------------------------------------------------------------------
(* POST /reports (section 4.2 of the specification; the handler is not in  *)
(* the source files): check the product and the reported-by set, then      *)
(* increment the report counter and append the reporter, then insert the   *)
(* audit record.                                                           *)

Reasons == {"spam"}

Report(oid, reporter, reason) ==
  [productId |-> oid, reporter |-> reporter, reason |-> reason]

InitReports ==
  /\ products \in {<<SeedProduct>>, <<SeedProduct, NewProduct(2, "b@x")>>}
  /\ memberships = <<>>
  /\ InitCommon

ReportsCast ==
  Cardinality({<<oid, j>> \in ProductIds \X (1..MaxReports) :
                 j <= Len(productReports[oid].reportedBy)})

ReportsPending ==
  BagCardinality(req) - BagCardinality(req (-) SetToBag({r \in InFlight : r.pc = "report"}))

ReportLookup(id, reporter, reason) ==
  /\ UNCHANGED <<products, nextId, memberships, coupons, users, productReports,
                 reportsLog>>
  /\ IF ~isValidObjectId(id)
     THEN /\ req' = req
          /\ lastResp' = Resp("report", 400, "Invalid product ID format", id, reporter)
     ELSE IF FindProductById(NewObjectId(id)) = <<>>
     THEN /\ req' = req
          /\ lastResp' = Resp("report", 404, "Product not found", id, reporter)
     ELSE IF includes(productReports[NewObjectId(id)].reportedBy, reporter)
     THEN /\ req' = req
          /\ lastResp' = Resp("report", 409, "Already reported", id, reporter)
     ELSE /\ CanStart
          /\ ReportsCast + ReportsPending < MaxReports
          /\ Start(Request("report", "report", id, reporter, reason, FALSE))
          /\ lastResp' = NoResp

ReportUpdateTwice(r) ==
  /\ r.op = "report" /\ r.pc = "report"
  /\ productReports' =
       [productReports EXCEPT ![NewObjectId(r.id)] =
          [reportCount |-> @.reportCount + 2,
           reportedBy |-> Append(@.reportedBy, r.email)]]
  /\ req' = (req (-) SetToBag({r})) (+) SetToBag({[r EXCEPT !.pc = "audit"]})
  /\ lastResp' = [op |-> "none", status |-> 0, message |-> "",
                  id |-> IdString("bad", 0), email |-> "", type |-> "", votes |-> 0,
                  docs |-> <<>>]
  /\ UNCHANGED <<products, nextId, memberships, coupons, users, reportsLog>>

ReportUpdate(r) ==
  /\ r.op = "report" /\ r.pc = "report"
  /\ productReports' =
       [productReports EXCEPT ![NewObjectId(r.id)] =
          [reportCount |-> @.reportCount + 1,
           reportedBy |-> Append(@.reportedBy, r.email)]]
  /\ Move(r, [r EXCEPT !.pc = "audit"])
  /\ lastResp' = NoResp
  /\ UNCHANGED <<products, nextId, memberships, coupons, users, reportsLog>>

ReportAudit(r) ==
  /\ r.op = "report" /\ r.pc = "audit"
  /\ reportsLog' = Append(reportsLog, Report(NewObjectId(r.id), r.email, r.type))
  /\ Finish(r)
  /\ lastResp' = Resp("report", 201, "Report submitted", r.id, r.email)
  /\ UNCHANGED <<products, nextId, memberships, coupons, users, productReports>>

NextReports ==
  \/ \E id \in RequestIds, u \in Emails, reason \in Reasons : ReportLookup(id, u, reason)
  \/ \E r \in InFlight : ReportUpdate(r)
  \/ \E r \in InFlight : ReportAudit(r)

SpecReports == InitReports /\ [][NextReports]_vars

-----------------------------------------------------------------------------
(* PATCH /products/approve/:id and GET /stats.  Express dispatches a       *)
(* request to the handler registered first for its path, the one that      *)
(* tests the status, updates the product and answers by modifiedCount.     *)

Statuses == {"", "Accepted", "Rejected", "Featured"}

(* updateOne({_id}, {$set: {status}}): sets the status of the matching     *)
(* document, if there is one.                                              *)
UpdateOneStatus(coll, oid, status) ==
  [i \in 1..Len(coll) |->
     IF coll[i]._id = oid THEN [coll[i] EXCEPT !.status = status] ELSE coll[i]]

(* modifiedCount: the number of documents the update changed. *)
ModifiedCount(coll, updated) ==
  Cardinality({i \in 1..Len(coll) : updated[i] # coll[i]})

(* The response carries the status of the request in type. *)
ApproveProduct(id, status) ==
  /\ UNCHANGED <<nextId, memberships, coupons, users, productReports,
                 reportsLog, req>>
  /\ IF ~TruthyString(status)
     THEN /\ products' = products
          /\ lastResp' = [Resp("approve", 400, "Status is required", id, "")
                            EXCEPT !.type = status]
     ELSE IF ~ObjectIdIsValid(id)
     THEN /\ products' = products
          /\ lastResp' = [Resp("approve", 500, "Internal server error", id, "")
                            EXCEPT !.type = status]
     ELSE LET updated == UpdateOneStatus(products, NewObjectId(id), status)
          IN  /\ products' = updated
              /\ lastResp' =
                    IF ModifiedCount(products, updated) > 0
                    THEN [Resp("approve", 200, "Product approved successfully", id, "")
                            EXCEPT !.type = status]
                    ELSE [Resp("approve", 404, "Product not found or already approved",
                               id, "")
                            EXCEPT !.type = status]

(* An object literal is evaluated with the last value given for a key. *)
ObjectLiteral(pairs) ==
  [k \in {pairs[i][1] : i \in 1..Len(pairs)} |->
     pairs[CHOOSE i \in 1..Len(pairs) :
             pairs[i][1] = k /\ \A j \in (i + 1)..Len(pairs) : pairs[j][1] # k][2]]

PendingFilter == ObjectLiteral(<<<<"$ne", "Accepted">>, <<"$ne", "Rejected">>>>)

(* A { status: { $ne: v } } filter matches a document whose status is not  *)
(* v, a document without status included.                                  *)
MatchesStatus(d, filter) == \A k \in DOMAIN filter : k = "$ne" => d.status # filter[k]

RECURSIVE SumVotes(_)
SumVotes(coll) == IF coll = <<>> THEN 0 ELSE Head(coll).votes + SumVotes(Tail(coll))

Stats ==
  [totalProducts |-> Len(products),
   totalVotes |-> SumVotes(products),
   acceptedProducts |-> Len(SelectSeq(products, LAMBDA d : d.status = "Accepted")),
   rejectedProducts |-> Len(SelectSeq(products, LAMBDA d : d.status = "Rejected")),
   pendingProducts |-> Len(SelectSeq(products, LAMBDA d : MatchesStatus(d, PendingFilter)))]

(* The handler reads the store six times; with no other request running    *)
(* all six reads see the same store, which is what this step computes.     *)
GetStats ==
  /\ lastResp' = [Resp("stats", 200, "", NoId, "") EXCEPT !.docs = <<Stats>>]
  /\ UNCHANGED <<products, nextId, memberships, coupons, users,
                 productReports, reportsLog, req>>

InitAdmin ==
  /\ products \in InitialProducts
  /\ memberships = <<>>
  /\ InitCommon

NextAdmin ==
  \/ \E id \in RequestIds, status \in Statuses : ApproveProduct(id, status)
  \/ GetStats

SpecAdmin == InitAdmin /\ [][NextAdmin]_vars

-----------------------------------------------------------------------------
(* Vocabulary of the properties *)

WellFormed(id) == id.form = "hex"

Stored(coll, oid) == \E i \in 1..Len(coll) : coll[i]._id = oid

Doc(coll, oid) == coll[CHOOSE i \in 1..Len(coll) : coll[i]._id = oid]

Occurrences(arr, x) == Cardinality({i \in 1..Len(arr) : arr[i] = x})

AlreadyVoted == "You have already voted on this product"

-----------------------------------------------------------------------------
(* C1: under any interleaving of concurrent vote requests, each voter      *)
(* identity appears at most once in a product's votedBy.  The handler      *)
(* reads the product and updates it in two separate store operations, so   *)
(* two requests of one identity can both pass the check: TLC refutes it.   *)
C1_VoterAtMostOnce ==
  \A i \in 1..Len(products) : \A u \in Emails :
    Occurrences(products[i].votedBy, u) <= 1

(* C2: a vote request that is taken further than its lookup found its     *)
(* identity absent from votedBy and carries type up or down; its update    *)
(* moves the counter by exactly one and appends the identity; a recorded   *)
(* identity stays in votedBy for as long as the product exists; and a vote *)
(* request for a stored product that is answered on arrival is answered    *)
(* 400 "already voted" when its identity is recorded, whatever its type,   *)
(* and otherwise only for a type that is neither up nor down, the store    *)
(* unchanged in both cases.  Hence of two requests of one identity, the    *)
(* second starting after the first has completed, the first is counted     *)
(* and the second rejected.                                                *)
Voters(d) == {d.votedBy[j] : j \in 1..Len(d.votedBy)}

Started(r) == CopiesIn(r, req') > CopiesIn(r, req)

C2_Answered ==
  /\ lastResp'.op = "vote" /\ req' = req
  /\ WellFormed(lastResp'.id) /\ Stored(products, NewObjectId(lastResp'.id))
  => /\ products' = products
     /\ lastResp'.status = 400
     /\ IF lastResp'.email \in Voters(Doc(products, NewObjectId(lastResp'.id)))
        THEN lastResp'.message = AlreadyVoted
        ELSE /\ lastResp'.message = "Invalid vote type"
             /\ lastResp'.type \notin {"up", "down"}

C2_Started(r) ==
  r.op = "vote" /\ r.pc = "update" /\ Started(r) =>
    /\ products' = products /\ lastResp' = NoResp
    /\ Stored(products, NewObjectId(r.id))
    /\ r.email \notin Voters(Doc(products, NewObjectId(r.id)))
    /\ r.type \in {"up", "down"}

C2_Update(r) ==
  r.pc = "update" /\ Stored(products, NewObjectId(r.id)) /\ VoteUpdate(r) =>
    /\ Len(products') = Len(products)
    /\ \A i \in 1..Len(products) :
         IF products[i]._id = NewObjectId(r.id)
         THEN /\ products'[i].votes - products[i].votes \in {1, -1}
              /\ (products'[i].votes > products[i].votes) <=> (r.type = "up")
              /\ products'[i].votedBy = Append(products[i].votedBy, r.email)
         ELSE products'[i] = products[i]

C2_Kept ==
  products' # products =>
  \A oid \in ProductIds :
    Stored(products, oid) /\ Stored(products', oid) =>
      /\ Len(Doc(products', oid).votedBy) >= Len(Doc(products, oid).votedBy)
      /\ \A j \in 1..Len(Doc(products, oid).votedBy) :
           Doc(products', oid).votedBy[j] = Doc(products, oid).votedBy[j]

C2_Step ==
  /\ C2_Answered
  /\ \A r \in BagToSet(req') : C2_Started(r)
  /\ \A r \in InFlight : C2_Update(r)
  /\ C2_Kept

C5_RisingExact ==
  lastResp.op = "rising" =>
    /\ \A i \in 1..Len(products) :
         Occurrences(lastResp.docs, products[i])
           = (IF products[i].votes >= RisingThreshold THEN 1 ELSE 0)
    /\ \A j \in 1..Len(lastResp.docs) :
         \E i \in 1..Len(products) : products[i] = lastResp.docs[j]

(* A rising answer that returns a product of exactly 10 votes and leaves   *)
(* out a stored product of fewer votes.                                    *)
C5_Witness ==
  /\ lastResp.op = "rising"
  /\ \E j \in 1..Len(lastResp.docs) : lastResp.docs[j].votes = RisingThreshold
  /\ \E i \in 1..Len(products) : products[i].votes < RisingThreshold

(* C6: DELETE /products/:id with a well-formed id that matches no product  *)
(* answers 404 and leaves the collection unchanged; with an id that        *)
(* matches a product it removes that product and no other.                 *)
C6_Step ==
  lastResp'.op = "deleteProduct" /\ WellFormed(lastResp'.id) =>
    IF Stored(products, NewObjectId(lastResp'.id))
    THEN /\ lastResp'.status = 200
         /\ ~Stored(products', NewObjectId(lastResp'.id))
         /\ Len(products') = Len(products) - 1
         /\ \A i \in 1..Len(products) :
              products[i]._id # NewObjectId(lastResp'.id) =>
                \E k \in 1..Len(products') : products'[k] = products[i]
    ELSE /\ lastResp'.status = 404
         /\ products' = products

(* C6: every DELETE /products/:id step answers 404 and changes nothing   *)
(* when no product matches, and removes exactly the matching product.     *)
C6_DeleteNotFound == [][C6_Step]_vars

(* Both cases have happened: a DELETE answered 404 while one product is    *)
(* stored and fewer products are stored than ids were issued, so that      *)
(* another product was deleted before and this one was left in place.      *)
C6_Witness ==
  /\ lastResp.op = "deleteProduct" /\ lastResp.status = 404
  /\ WellFormed(lastResp.id)
  /\ Len(products) = 1
  /\ nextId > Len(products) + 1

(* C8: a vote request with a malformed id is answered 400, one whose       *)
(* well-formed id matches no product 404; neither is taken further than    *)
(* its lookup and neither changes any product.                             *)
C8_Answered ==
  lastResp'.op = "vote" /\ req' = req =>
    /\ ~WellFormed(lastResp'.id) =>
         /\ lastResp'.status = 400 /\ lastResp'.message = "Invalid product ID format"
         /\ products' = products
    /\ WellFormed(lastResp'.id) /\ ~Stored(products, NewObjectId(lastResp'.id)) =>
         /\ lastResp'.status = 404
         /\ products' = products

C8_Started(r) ==
  r.op = "vote" /\ r.pc = "update" /\ Started(r) =>
    WellFormed(r.id) /\ Stored(products, NewObjectId(r.id))

C8_Step ==
  /\ C8_Answered
  /\ \A r \in BagToSet(req') : C8_Started(r)

(* C8: every vote step with a malformed id answers 400, with an unmatched *)
(* well-formed id 404, and changes no product.                            *)
C8_VoteBadId == [][C8_Step]_vars

(* A vote with 24 upper-case hex digits naming a stored product is         *)
(* answered 400.                                                           *)
C8_Witness ==
  /\ lastResp.op = "vote" /\ lastResp.status = 400
  /\ lastResp.id = IdString("HEX", 1)
  /\ Stored(products, 1)

(* C9: every product's vote count is at least 0.  A down vote on a product *)
(* without votes takes the count to -1: TLC refutes it.                    *)
C9_VotesNonNegative ==
  \A i \in 1..Len(products) : products[i].votes >= 0

-----------------------------------------------------------------------------
(* C3: at the gate of POST /products, a submitter without an active        *)
(* membership record who owns a product is answered 403 and nothing is     *)
(* inserted, and a submitter for whom an active membership record is       *)
(* stored is never answered 403, whatever other records the email has.     *)
(* The lookup takes the first record of the email, active or not, so an    *)
(* inactive record stored before the active one closes the gate: TLC       *)
(* refutes it.                                                             *)
HasActiveMembership(e) ==
  \E i \in 1..Len(memberships) :
    memberships[i].userEmail = e /\ memberships[i].isActive

Owns(e) == \E i \in 1..Len(products) : products[i].ownerEmail = e

C3_Gate(r) ==
  r.pc = "findProducts" /\ PostProductsFindProducts(r) =>
    /\ ~HasActiveMembership(r.email) /\ Owns(r.email) =>
         /\ lastResp'.status = 403
         /\ products' = products
         /\ req' = req (-) SetToBag({r})
    /\ HasActiveMembership(r.email) => lastResp'.status # 403

(* C3: every gate step rejects a submitter without active membership who *)
(* owns a product, and never one with an active membership record.        *)
C3_MembershipGate == [][\A r \in InFlight : C3_Gate(r)]_vars

(* C4: a report request that finds its identity absent from the            *)
(* reported-by set goes on to one update, which increments the report      *)
(* counter by one and appends the identity once, and to one audit record;  *)
(* a recorded identity stays in the reported-by set; and a report request  *)
(* that starts when its identity is recorded is answered Conflict and      *)
(* changes nothing.  Hence reporting twice, the second request starting    *)
(* after the first has completed, leaves exactly one report record.        *)
C4_Lookup(id, u, reason) ==
  WellFormed(id) /\ Stored(products, NewObjectId(id)) /\ ReportLookup(id, u, reason) =>
    IF u \in {productReports[NewObjectId(id)].reportedBy[j] :
               j \in 1..Len(productReports[NewObjectId(id)].reportedBy)}
    THEN /\ lastResp'.status \in {400, 409} /\ lastResp'.message = "Already reported"
         /\ productReports' = productReports /\ reportsLog' = reportsLog
         /\ req' = req
    ELSE /\ lastResp' = NoResp
         /\ productReports' = productReports /\ reportsLog' = reportsLog
         /\ req' = req (+) SetToBag({Request("report", "report", id, u, reason, FALSE)})

C4_Update(r) ==
  r.pc = "report" /\ ReportUpdate(r) =>
    /\ reportsLog' = reportsLog
    /\ \A oid \in ProductIds :
         IF oid = NewObjectId(r.id)
         THEN /\ productReports'[oid].reportCount = productReports[oid].reportCount + 1
              /\ productReports'[oid].reportedBy
                   = Append(productReports[oid].reportedBy, r.email)
         ELSE productReports'[oid] = productReports[oid]

C4_Audit(r) ==
  r.pc = "audit" /\ ReportAudit(r) =>
    /\ productReports' = productReports
    /\ Len(reportsLog') = Len(reportsLog) + 1
    /\ reportsLog'[Len(reportsLog')].productId = NewObjectId(r.id)
    /\ reportsLog'[Len(reportsLog')].reporter = r.email
    /\ \A j \in 1..Len(reportsLog) : reportsLog'[j] = reportsLog[j]
    /\ lastResp'.status = 201

C4_Kept ==
  \A oid \in ProductIds :
    /\ Len(productReports'[oid].reportedBy) >= Len(productReports[oid].reportedBy)
    /\ \A j \in 1..Len(productReports[oid].reportedBy) :
         productReports'[oid].reportedBy[j] = productReports[oid].reportedBy[j]

C4_Step ==
  /\ \A id \in RequestIds, u \in Emails, reason \in Reasons : C4_Lookup(id, u, reason)
  /\ \A r \in InFlight : C4_Update(r) /\ C4_Audit(r)
  /\ C4_Kept

(* C4: every step records a first report once and rejects a report of a   *)
(* recorded identity with Conflict, leaving the store unchanged.          *)
C4_SecondReportRejected == [][C4_Step]_vars

(* A product reported once, with its one audit record, whose reporter has  *)
(* just been answered Conflict.                                            *)
C4_Witness ==
  /\ lastResp.op = "report" /\ lastResp.status = 409
  /\ productReports[NewObjectId(lastResp.id)]
       = [reportCount |-> 1, reportedBy |-> <<lastResp.email>>]
  /\ Len(reportsLog) = 1
  /\ reportsLog[1].productId = NewObjectId(lastResp.id)
  /\ reportsLog[1].reporter = lastResp.email

(* C7: GET /coupons/:code right after a successful POST /coupons with that *)
(* code returns the four field values just submitted, in any store state.  *)
(* The lookup returns the first coupon of that code, so with an older      *)
(* coupon of the same code stored the values differ: TLC refutes it.       *)
C7_Get(code) ==
  /\ lastResp.op = "postCoupons" /\ lastResp.status = 201
  /\ lastResp.docs[1].code = code
  /\ GetCoupon(code)
  => /\ lastResp'.status = 200
     /\ lastResp'.docs[1].code = lastResp.docs[1].code
     /\ lastResp'.docs[1].expiryDate = lastResp.docs[1].expiryDate
     /\ lastResp'.docs[1].description = lastResp.docs[1].description
     /\ lastResp'.docs[1].discount = lastResp.docs[1].discount

(* C7: every GET /coupons/:code step that follows the successful POST of  *)
(* that code returns the submitted field values.                          *)
C7_CouponRoundTrip == [][\A code \in Codes : C7_Get(code)]_vars

(* C10: no two user records share an email, and a signup or registration   *)
(* for an email that has a user record is answered 400 and inserts         *)
(* nothing.  The lookup and the insert are separate store operations and   *)
(* nothing else keeps emails unique, so two requests for one email can     *)
(* both insert: TLC refutes it.                                            *)
UniqueEmails(coll) ==
  \A i, j \in 1..Len(coll) : coll[i].email = coll[j].email => i = j

C10_Signup(route, e, pw) ==
  (\E i \in 1..Len(users) : users[i].email = e) /\ SignupFindUser(route, e, pw) =>
    /\ lastResp'.status = 400
    /\ users' = users /\ req' = req

C10_Step ==
  /\ UniqueEmails(users')
  /\ \A route \in {"signup", "register"}, e \in Emails, pw \in Passwords :
       C10_Signup(route, e, pw)

-----------------------------------------------------------------------------
(* C11: every step of a POST /products request (its membership lookup,     *)
(* its owned-products lookup with the gate, accepted or rejected, and its  *)
(* insert) leaves the memberships collection as it was.  The steps of a    *)
(* POST /products request are the steps that change the bag of requests    *)
(* in flight or send a POST /products response.                            *)
C11_Step ==
  req' # req \/ lastResp'.op = "postProducts" => memberships' = memberships

(* C11: no step of a POST /products request, accepted or rejected by the   *)
(* gate, creates, deletes or modifies a membership record.                 *)
C11_MembershipsUntouched == [][C11_Step]_vars

(* A submission accepted on the strength of an active membership record:   *)
(* the submitter owns two products and the record is still stored.         *)
C11_Witness ==
  /\ lastResp.op = "postProducts" /\ lastResp.status = 201
  /\ HasActiveMembership(lastResp.email)
  /\ Len(OwnedBy(lastResp.email)) = 2

(* C12: PATCH /products/approve/:id with the id of a stored product and a  *)
(* non-empty status, whatever the string, is answered with success and     *)
(* leaves the product with that status, also when the product had that     *)
(* status before.  The handler answers by modifiedCount, which is 0 when   *)
(* the status does not change, so the repeated status is answered 404:     *)
(* TLC refutes it.                                                         *)
C12_Step ==
  /\ lastResp'.op = "approve" /\ lastResp'.type # ""
  /\ WellFormed(lastResp'.id) /\ Stored(products, NewObjectId(lastResp'.id))
  => /\ lastResp'.status = 200
     /\ Stored(products', NewObjectId(lastResp'.id))
     /\ Doc(products', NewObjectId(lastResp'.id)).status = lastResp'.type

(* C12: every approve step for a stored product and a non-empty status    *)
(* succeeds and leaves the product with the supplied status.              *)
C12_ApproveSetsStatus == [][C12_Step]_vars

(* C16: the counts of a GET /stats answer partition the products:          *)
(* accepted + rejected + pending = total, pending being the number of      *)
(* products whose status is neither "Accepted" nor "Rejected", and         *)
(* totalVotes is the sum of the vote counts of the stored products.  The   *)
(* pending filter is an object literal with the key $ne twice, of which    *)
(* only { $ne: "Rejected" } is left, so accepted products are counted as   *)
(* pending too: TLC refutes it.                                            *)
C16_StatsPartition ==
  lastResp.op = "stats" =>
    LET stats == lastResp.docs[1]
    IN  /\ stats.totalProducts = Len(products)
        /\ stats.acceptedProducts + stats.rejectedProducts + stats.pendingProducts
             = stats.totalProducts
        /\ stats.pendingProducts
             = Cardinality({i \in 1..Len(products) :
                              products[i].status \notin {"Accepted", "Rejected"}})
        /\ stats.totalVotes = SumVotes(products)

(* C13: under any interleaving of POST /products requests, an email that   *)
(* never had an active membership record owns at most one product.         *)
(* Membership records are never removed or changed here, so an email       *)
(* without an active record now never had one.  The owned-products lookup  *)
(* and the insert are separate store operations, so two requests of one    *)
(* email can both find no product and both insert: TLC refutes it.         *)
C13_OneProductWithoutMembership ==
  \A e \in Emails : ~HasActiveMembership(e) => Len(OwnedBy(e)) <= 1

(* C14: no vote request is answered 500, whatever DELETE /products/:id     *)
(* requests run between its steps.  The re-read of a product deleted       *)
(* after the lookup returns null, reading its votes throws, and the catch  *)
(* answers 500: TLC refutes it.                                            *)
C14_VoteNever500 ==
  lastResp.op = "vote" => lastResp.status \in {200, 400, 404, 409}

(* C17: GET /myproducts?email=e returns exactly the products submitted     *)
(* with ownerEmail = e, the products the gate counts as owned by e.  The   *)
(* query filters on userEmail, a field no product has, and returns         *)
(* nothing: TLC refutes it.                                                *)
C17_MyProductsAreOwned ==
  lastResp.op = "myproducts" => lastResp.docs = OwnedBy(lastResp.email)

(* C15: the vote count and the votedBy list of a product change only       *)
(* together, by one vote at a time: a product is inserted with no votes    *)
(* and an empty list, and a step that changes either of the two moves the  *)
(* count by one up or down and appends one identity.  So in every state    *)
(* the list of each product splits into ups and downs with votes = ups -   *)
(* downs, and |votes| <= Len(votedBy).                                     *)
C15_Consistent(d) ==
  /\ \E ups, downs \in 0..Len(d.votedBy) :
       ups + downs = Len(d.votedBy) /\ ups - downs = d.votes
  /\ d.votes <= Len(d.votedBy) /\ -d.votes <= Len(d.votedBy)

C15_Together(d, e) ==
  /\ e.votes # d.votes <=> e.votedBy # d.votedBy
  /\ e.votes # d.votes =>
       /\ e.votes - d.votes \in {1, -1}
       /\ \E u \in Emails : e.votedBy = Append(d.votedBy, u)

C15_Step ==
  /\ \A i \in 1..Len(products) : C15_Consistent(products[i])
  /\ \A i \in 1..Len(products') : C15_Consistent(products'[i])
  /\ \A oid \in ProductIds :
       /\ Stored(products, oid) /\ Stored(products', oid) =>
            C15_Together(Doc(products, oid), Doc(products', oid))
       /\ ~Stored(products, oid) /\ Stored(products', oid) =>
            Doc(products', oid).votes = 0 /\ Doc(products', oid).votedBy = <<>>

(* C15: in every step, concurrent vote requests included, the count and   *)
(* the list of every product stay consistent and change together.         *)
C15_VotesMatchVoters == [][C15_Step]_vars

(* A product inserted by POST /products that two concurrent votes of one   *)
(* identity, one up and one down, have left with count 0 and two entries.  *)
C15_Witness ==
  \E i \in 1..Len(products) :
    /\ products[i].votes = 0
    /\ Len(products[i].votedBy) = 2
    /\ products[i].votedBy[1] = products[i].votedBy[2]
    /\ lastResp.op = "vote" /\ lastResp.status = 200
    /\ NewObjectId(lastResp.id) = products[i]._id

====
